---- MODULE Spec2Model ----
(***************************************************************************)
(* A model of the Bitcask key-value store: the facade (put, get, delete,   *)
(* drop, merge, open), the Database (active file, stable files, rollover,  *)
(* reload, recovery iteration) and the directory on disk.                  *)
(*                                                                         *)
(* A data file is a sequence of rows; the offset of a row is its index in  *)
(* that sequence and the size of a file is its number of rows.             *)
(***************************************************************************)
EXTENDS Integers, Sequences, FiniteSets, TLC

\* ----------------------------------------------------------------- bounds
\* The largest file size, row size and size limit of a write under test.
MaxSize == 4
\* The largest value given to an option of an open under test.
MaxOpt == 2
\* The largest value an altered field of a stored row is given.
MaxAltered == 2
NumKeys == 2
NumHandles == 2
\* The number of calls (put, delete, drop, merge, close, kill) in a run.
MaxCalls == 4
\* The number of calls in a history of two merges with writes in between.
MaxCallsLong == 5
MaxCallsGet == 3
MaxOps == 5
NumThreads == 2
MaxThreadOps == 3
MaxLockCalls == 2

Keys == 1..NumKeys
Handles == 1..NumHandles
\* Values are opaque to the store: two of them tell a stale read from a
\* fresh one.
Values == {1, 2}

\* BitcaskOptions.max_data_file_size, counted in rows.
max_data_file_size == 2

\* The tombstone sentinel written as the value of a deleting row.
TOMBSTONE_VALUE == 0

VARIABLES
    \* the directory on disk
    disk,        \* main directory: file id -> [rows, readonly]
    mdisk,       \* merge/ scratch directory: file id -> [rows, readonly]
    meta,        \* merge/merge.meta: <<>> when absent, <<id>> when present
    dirLock,     \* the directory lock is held
    \* the Bitcask instances of the directory
    inst,        \* handle -> "closed" | "locked" | "open" | "LockDirectoryFailed"
    \* memory of the open instance
    keydir,      \* key -> RowLocation or NoEntry
    writing,     \* file id of Database.writing_storage
    stable,      \* keys of Database.stable_storages
    gen,         \* FileIdGenerator.file_id
    kdLock,      \* the keydir write lock is held by merge()
    \* the thread running merge()
    mpc, known, snapshot, todo, new_kd, mwriting, mstable, file_ids,
    \* the thread running get()
    gpc, gkey, gentry, gres,
    \* history of the run (not program state)
    last,        \* key -> the last put/delete/drop completed on it by this instance
    mPre,        \* what get returned for each key when merge() was called
    mRows,       \* the number of rows in the directory when merge() was called
    mClean,      \* no put/delete/drop completed since merge() was called
    winOp,       \* key -> the last operation completed between snapshot and overlay
    atDown,      \* what get returned for each key when the instance went down
    downKind,    \* "none" | "close" | "crash"
    crashPc,     \* the merge step the crash interrupted
    fresh,       \* nothing was written since the last open
    dropped,     \* drop() completed since the last open
    calls,       \* the number of calls made so far
    maxId,       \* the highest data-file id ever assigned in the directory
    budget,      \* the number of calls the history may have
    \* locks and errors of the open instance
    mergeLock,   \* the merge lock is held
    m2pc,        \* a second thread calling merge(): "idle" | "running"
    db_error,    \* Database.is_error is set
    ret,         \* the result of the last put, delete, drop or second merge
    \* the pure operations under test
    probe

diskVars == <<disk, mdisk, meta, dirLock>>
memVars == <<keydir, writing, stable, gen, kdLock>>
mergeVars == <<mpc, known, snapshot, todo, new_kd, mwriting, mstable, file_ids>>
getVars == <<gpc, gkey, gentry, gres>>
histVars == <<last, mPre, mRows, mClean, winOp, atDown, downKind, crashPc, fresh, dropped, calls>>
auxVars == <<mergeLock, m2pc, db_error, ret, probe>>
vars == <<diskVars, inst, memVars, mergeVars, getVars, histVars, maxId, budget, auxVars>>

\* ------------------------------------------------------------ basic values
NoEntry == [file_id |-> 0, row_offset |-> 0]
RowLocation(f, o) == [file_id |-> f, row_offset |-> o]
Row(k, v) == [key |-> k, value |-> v]
NewFile == [rows |-> <<>>, readonly |-> FALSE]
NoFiles == [i \in {} |-> NewFile]

Some(v) == [kind |-> "some", val |-> v]
None == [kind |-> "none", val |-> 0]
Err(e) == [kind |-> e, val |-> 0]

is_tombstone(v) == v = TOMBSTONE_VALUE

Min(S) == CHOOSE m \in S : \A x \in S : m <= x
Max(S) == CHOOSE m \in S : \A x \in S : m >= x

Remove(files, ids) == [i \in (DOMAIN files) \ ids |-> files[i]]

\* ------------------------------------------------------- FileIdGenerator
generate_next_file_id(g) == g + 1
update_file_id(g, current_max_file_id) == current_max_file_id

\* ------------------------------------------------------------- Database
Db(files, w, st, g) == [files |-> files, writing |-> w, stable |-> st, gen |-> g]

\* write_row reports StorageOverflow when appending the row would exceed
\* max_data_file_size; nothing is written then.
write_row_overflows(file_size, row_size, max_size) == file_size + row_size > max_size

\* write_row on a file of the store, where every row takes one unit.
StorageOverflow(file) == write_row_overflows(Len(file.rows), 1, max_data_file_size)

\* The size of the active file after do_flush_writing_file: an empty file
\* stays, any other is replaced by a new, empty one.
flushed_size(file_size) == IF file_size = 0 THEN file_size ELSE 0

\* Database::write on a file of the given size: write_row, and on
\* StorageOverflow a flush and a second write_row whose error is returned.
write_outcome(file_size, row_size, max_size) ==
    IF write_row_overflows(file_size, row_size, max_size)
    THEN IF write_row_overflows(flushed_size(file_size), row_size, max_size)
         THEN "StorageOverflow"
         ELSE "Ok"
    ELSE "Ok"

\* Bitcask::put around Database::write: an error of the write sets the
\* error flag and is returned.
put_outcome(file_size, row_size, max_size) ==
    LET r == write_outcome(file_size, row_size, max_size)
    IN  [ret |-> r, db_error |-> r # "Ok"]

\* A flush that seals the active file and leaves it in place as the active
\* file.
\* A flush that rolls an empty active file as well.
do_flush_unconditional(db) ==
    LET next_file_id == generate_next_file_id(db.gen)
    IN  Db([db.files EXCEPT ![db.writing].readonly = TRUE] @@ (next_file_id :> NewFile),
           next_file_id, db.stable \cup {db.writing}, next_file_id)

\* A flush that does nothing.
do_flush_skipped(db) == db

\* A flush that does not insert the old active file into the stable map.
do_flush_unloaded(db) ==
    IF Len(db.files[db.writing].rows) = 0
    THEN db
    ELSE LET next_file_id == generate_next_file_id(db.gen)
         IN  Db([db.files EXCEPT ![db.writing].readonly = TRUE] @@ (next_file_id :> NewFile),
                next_file_id, db.stable, next_file_id)

do_flush_seal_only(db) ==
    [db EXCEPT !.files[db.writing].readonly = TRUE]

\* Database::do_flush_writing_file: an empty active file is left in place;
\* otherwise a new active file is created and the old one turns read-only
\* and joins the stable map.
do_flush_writing_file(db) ==
    IF Len(db.files[db.writing].rows) = 0
    THEN db
    ELSE LET next_file_id == generate_next_file_id(db.gen)
         IN  Db([db.files EXCEPT ![db.writing].readonly = TRUE]
                    @@ (next_file_id :> NewFile),
                next_file_id,
                db.stable \cup {db.writing},
                next_file_id)

\* DataStorage::write_row: a read-only file takes no row (PermissionDenied).
AppendRow(db, row) ==
    IF db.files[db.writing].readonly
    THEN db
    ELSE [db EXCEPT !.files[db.writing].rows = Append(@, row)]

\* Database::write: append to the active file, rolling it on overflow. A
\* row takes one unit and max_data_file_size is 2, so the retried write_row
\* always fits.
DbWriteFlushAlways(db, row) == AppendRow(do_flush_writing_file(db), row)

DbWrite(db, row) ==
    IF StorageOverflow(db.files[db.writing])
    THEN AppendRow(do_flush_writing_file(db), row)
    ELSE AppendRow(db, row)

\* The files do_flush_writing_file hands to async_write_hint_file: the old
\* active file, unless the flush is skipped on an empty file.
hint_scheduled(db) ==
    IF Len(db.files[db.writing].rows) = 0 THEN {} ELSE {db.writing}

\* The files Database::write schedules hint generation for.
write_schedules(db) ==
    IF StorageOverflow(db.files[db.writing]) THEN hint_scheduled(db) ELSE {}

\* The RowLocation Database::write returns: the last row of the active file.
WrittenAt(db) == RowLocation(db.writing, Len(db.files[db.writing].rows))

\* Database::read_value: the active file if the id matches, else the
\* stable map, else TargetFileIdNotFound.
ReadValue(files, w, st, e) ==
    IF e.file_id = w \/ e.file_id \in st
    THEN IF e.file_id \in DOMAIN files /\ e.row_offset \in 1..Len(files[e.file_id].rows)
         THEN Some(files[e.file_id].rows[e.row_offset].value)
         ELSE Err("ReadRowFailed")
    ELSE Err("TargetFileIdNotFound")

\* Bitcask::get once the keydir entry has been looked up.
GetAt(files, w, st, e) ==
    IF e = NoEntry
    THEN None
    ELSE LET v == ReadValue(files, w, st, e)
         IN  IF v.kind # "some" THEN v
             ELSE IF is_tombstone(v.val) THEN None
             ELSE v

\* The result of a get(k) that runs alone from the current state.
GetNow(k) == GetAt(disk, writing, stable, keydir[k])

\* A contains_key that finds every key.
contains_every_key(k) == TRUE

\* Bitcask::has, KeyDir::contains_key.
has(k) == keydir[k] # NoEntry

\* Bitcask::foreach_key and Bitcask::fold_key: the keys handed to the
\* callback, one per keydir entry.
foreach_key == {k \in Keys : keydir[k] # NoEntry}

\* Bitcask::stats: number_of_keys is the length of the keydir.
number_of_keys == Cardinality({k \in Keys : keydir[k] # NoEntry})

MainDb == Db(disk, writing, stable, gen)

\* ------------------------------------------------------------ recovery
RECURSIVE SortDesc(_)
SortDesc(S) == IF S = {} THEN <<>> ELSE <<Max(S)>> \o SortDesc(S \ {Max(S)})

\* The order in which Vec::pop hands out the elements of a vector.
PopOrder(v) == [i \in 1..Len(v) |-> v[Len(v) + 1 - i]]

\* Database::recovery_iter sorts the file ids, reverses them and hands the
\* vector to DatabaseRecoverIter, which pops the next file id off its end.
RecoverFileOrder(ids) == PopOrder(SortDesc(ids))

\* What a kill in the middle of an append leaves at the end of a data
\* file: bytes that do not decode to a row.
TornRow == [key |-> 0, value |-> 0]
decodable(row) == row.key \in Keys

\* A scan that logs an undecodable row and goes on with the next one.
RECURSIVE storage_offsets_skip(_, _)
storage_offsets_skip(rows, i) ==
    IF i > Len(rows) THEN <<>>
    ELSE IF ~decodable(rows[i]) THEN storage_offsets_skip(rows, i + 1)
    ELSE <<i>> \o storage_offsets_skip(rows, i + 1)

\* StorageIter::next: the offsets of the rows read_next_row yields from
\* offset i on; on an error the file is logged as corrupted and the
\* iterator returns None, which ends the scan of the file.
RECURSIVE storage_offsets(_, _)
storage_offsets(rows, i) ==
    IF i > Len(rows) THEN <<>>
    ELSE IF ~decodable(rows[i]) THEN <<>>
    ELSE <<i>> \o storage_offsets(rows, i + 1)

\* recovered_iter: the rows of one data file, by ascending offset.
RecoveredRows(files, f) ==
    LET o == storage_offsets(files[f].rows, 1)
    IN  [j \in 1..Len(o) |->
            [file_id |-> f, row_offset |-> o[j], key |-> files[f].rows[o[j]].key,
             is_tombstone |-> is_tombstone(files[f].rows[o[j]].value)]]

RECURSIVE RecoverAll(_, _, _)
RecoverAll(files, order, i) ==
    IF i > Len(order) THEN <<>>
    ELSE RecoveredRows(files, order[i]) \o RecoverAll(files, order, i + 1)

recovery_iter(db) == RecoverAll(db.files, RecoverFileOrder(db.stable \cup {db.writing}), 1)

\* Database::iter: the rows of every loaded file, stable and active, file
\* by file in the order DatabaseIter pops them, each file by ascending
\* offset. No row is left out.
RECURSIVE IterAll(_, _, _)
IterAll(files, order, i) ==
    IF i > Len(order) THEN <<>>
    ELSE files[order[i]].rows \o IterAll(files, order, i + 1)

database_iter(db) == IterAll(db.files, RecoverFileOrder(db.stable \cup {db.writing}), 1)

\* The RowToRead values of one data file: key, value and row location of
\* each row, by ascending offset.
StorageIter(files, f) ==
    LET o == storage_offsets(files[f].rows, 1)
    IN  [j \in 1..Len(o) |->
            [key |-> files[f].rows[o[j]].key, value |-> files[f].rows[o[j]].value,
             file_id |-> f, row_offset |-> o[j]]]

RECURSIVE DatabaseIter(_, _, _)
DatabaseIter(files, order, i) ==
    IF i > Len(order) THEN <<>>
    ELSE StorageIter(files, order[i]) \o DatabaseIter(files, order, i + 1)

\* Database::iter with the RowLocation of every row: the ids of the loaded
\* files are sorted, reversed and popped off the end by DatabaseIter.
iter(db) == DatabaseIter(db.files, PopOrder(SortDesc(db.stable \cup {db.writing})), 1)

\* Bitcask::foreach and Bitcask::fold: the rows handed to the callback, in
\* order; fold's counting accumulator ends at their number.
foreach == database_iter(Db(disk, writing, stable, gen))

\* The hint file of a data file: one record for the most recent occurrence
\* of each key in the file, with the tombstone flag of that row.
RECURSIVE HintRecords(_, _, _)
HintRecords(files, f, i) ==
    IF i > Len(files[f].rows) THEN <<>>
    ELSE IF \E j \in (i + 1)..Len(files[f].rows) : files[f].rows[j].key = files[f].rows[i].key
         THEN HintRecords(files, f, i + 1)
         ELSE <<RecoveredRows(files, f)[i]>> \o HintRecords(files, f, i + 1)

\* recovered_iter: the records of the hint file if the file has one, the
\* rows of the data file otherwise.
recovered_iter(files, f, hints) ==
    IF f \in hints THEN HintRecords(files, f, 1) ELSE RecoveredRows(files, f)

\* DatabaseRecoverIter over a directory in which the files in hints have a
\* hint file.
RECURSIVE RecoverAllHinted(_, _, _, _)
RecoverAllHinted(files, order, i, hints) ==
    IF i > Len(order) THEN <<>>
    ELSE recovered_iter(files, order[i], hints)
             \o RecoverAllHinted(files, order, i + 1, hints)

\* KeyDir::new, the rebuild on open: a key already present is skipped, a
\* tombstone is remembered, any other row is inserted unless its key has a
\* remembered tombstone.
RECURSIVE Rebuild(_, _, _, _)
Rebuild(rows, i, kd, tombs) ==
    IF i > Len(rows) THEN kd
    ELSE LET r == rows[i]
         IN  IF kd[r.key] # NoEntry THEN Rebuild(rows, i + 1, kd, tombs)
             ELSE IF r.is_tombstone THEN Rebuild(rows, i + 1, kd, tombs \cup {r.key})
             ELSE IF r.key \notin tombs
                  THEN Rebuild(rows, i + 1,
                               [kd EXCEPT ![r.key] = RowLocation(r.file_id, r.row_offset)],
                               tombs)
                  ELSE Rebuild(rows, i + 1, kd, tombs)

EmptyKeyDir == [k \in Keys |-> NoEntry]
KeyDirNew(db) == Rebuild(recovery_iter(db), 1, EmptyKeyDir, {})

\* The rebuild on open when the files in hints have a hint file.
KeyDirNewHinted(db, hints) ==
    Rebuild(RecoverAllHinted(db.files, RecoverFileOrder(db.stable \cup {db.writing}), 1, hints),
            1, EmptyKeyDir, {})

\* prepare_load_storages: the file with the highest id becomes the active
\* file unless it is read-only (or there is none); then a new one is created.
prepare_load_storages(files, data_file_ids, g) ==
    IF data_file_ids = {} \/ files[Max(data_file_ids)].readonly
    THEN LET writing_file_id == generate_next_file_id(g)
         IN  Db(files @@ (writing_file_id :> NewFile), writing_file_id,
                data_file_ids, writing_file_id)
    ELSE Db(files, Max(data_file_ids), data_file_ids \ {Max(data_file_ids)}, g)

\* Database::open on a directory, with the generator it is handed.
DatabaseOpen(files, g) ==
    LET data_file_ids == DOMAIN files
        g1 == IF data_file_ids # {} THEN update_file_id(g, Max(data_file_ids)) ELSE g
    IN  prepare_load_storages(files, data_file_ids, g1)

\* Database::reload_data_files: the active file and the stable map are
\* replaced by what prepare_load_storages builds from the given ids.
reload_data_files(db, data_file_ids) ==
    prepare_load_storages(db.files, data_file_ids, db.gen)

\* ---------------------------------------------------------------- merge
\* The files the purge of merge step 10 removes.
PurgeSet(files, merged, known_id) ==
    {f \in DOMAIN files : f <= known_id /\ \A m \in merged : f < m}

\* Merge recovery at open: with merge.meta present the staged files are
\* moved into place and the purge is resumed; without it merge/ is emptied.
recover_merge(files, mfiles, mt) ==
    IF mt # <<>>
    THEN LET moved == files @@ mfiles
         IN  [disk |-> Remove(moved, PurgeSet(moved, DOMAIN mfiles, mt[1])),
              mdisk |-> NoFiles, meta |-> <<>>]
    ELSE [disk |-> files, mdisk |-> NoFiles, meta |-> <<>>]

\* The number of rows stored in the data files ids of a directory, the
\* size of the row data in units of one row.
RECURSIVE SumRows(_, _)
SumRows(files, ids) ==
    IF ids = {} THEN 0
    ELSE LET f == CHOOSE x \in ids : TRUE
         IN  Len(files[f].rows) + SumRows(files, ids \ {f})

TotalRows(files) == SumRows(files, DOMAIN files)

\* KeyDir::checked_put inserts only if the key is absent.
checked_put(kd, k, e) == IF kd[k] = NoEntry THEN [kd EXCEPT ![k] = e] ELSE kd

\* KeyDir::put is unconditional.
kd_put(kd, k, e) == [kd EXCEPT ![k] = e]

\* A merge that leaves the keydir as it was.
OverlaySkipped(kd, nkd) == kd

\* Bitcask::merge lines 162-165: every entry of new_kd is put in the keydir.
Overlay(kd, nkd) ==
    [k \in Keys |-> IF nkd[k] # NoEntry THEN kd_put(kd, k, nkd[k])[k] ELSE kd[k]]

\* ----------------------------------------------------------------- state
alive == \E h \in Handles : inst[h] = "open"

NoOp == [op |-> "none", val |-> 0]
IdleMerge ==
    /\ mpc' = "idle" /\ known' = 0 /\ snapshot' = EmptyKeyDir /\ todo' = {}
    /\ new_kd' = EmptyKeyDir /\ mwriting' = 0 /\ mstable' = {} /\ file_ids' = {}
IdleGet == gpc' = "idle" /\ gkey' = 0 /\ gentry' = NoEntry /\ gres' = None

\* The merge has taken its snapshot and has not yet overlaid the keydir.
InWindow == mpc \in {"open_db", "write", "meta", "commit"}

SetMainDb(db) ==
    /\ disk' = db.files /\ writing' = db.writing /\ stable' = db.stable /\ gen' = db.gen

\* No pure operation is under test.
NoProbe == [op |-> "none"]

\* The ids of the data files of the directory and of its merge/ directory.
IdsOnDisk(files, mfiles) == DOMAIN files \cup DOMAIN mfiles

\* Every id handed out so far is at most maxId.
Track == maxId' = Max({maxId} \cup IdsOnDisk(disk', mdisk'))

\* A fresh directory opened by handle 1: Bitcask::open created file 1.
InitStore ==
    /\ disk = (1 :> NewFile) /\ mdisk = NoFiles /\ meta = <<>> /\ dirLock = TRUE
    /\ inst = [h \in Handles |-> IF h = 1 THEN "open" ELSE "closed"]
    /\ keydir = EmptyKeyDir /\ writing = 1 /\ stable = {} /\ gen = 1 /\ kdLock = FALSE
    /\ mpc = "idle" /\ known = 0 /\ snapshot = EmptyKeyDir /\ todo = {}
    /\ new_kd = EmptyKeyDir /\ mwriting = 0 /\ mstable = {} /\ file_ids = {}
    /\ gpc = "idle" /\ gkey = 0 /\ gentry = NoEntry /\ gres = None
    /\ last = [k \in Keys |-> NoOp]
    /\ mPre = [k \in Keys |-> None] /\ mRows = 0 /\ mClean = TRUE
    /\ winOp = [k \in Keys |-> "none"]
    /\ atDown = [k \in Keys |-> None] /\ downKind = "none" /\ crashPc = "idle"
    /\ fresh = TRUE /\ dropped = FALSE /\ calls = 0
    /\ maxId = 1
    /\ mergeLock = FALSE /\ m2pc = "idle" /\ db_error = FALSE /\ ret = "Ok"

\* The state after Bitcask::open on an empty directory.
Init ==
    /\ InitStore
    /\ probe = NoProbe
    /\ budget = MaxCalls

\* The same state, at the start of a longer history.
InitLong ==
    /\ InitStore
    /\ probe = NoProbe
    /\ budget = MaxCallsLong

\* The same directory, with a history of up to MaxCallsGet calls.
InitGet == InitStore /\ probe = NoProbe /\ budget = MaxCallsGet

\* ------------------------------------------------------- put, delete, drop
\* What a completed write on the keys ks records in the history.
Wrote(ks, o, v) ==
    /\ last' = [k \in Keys |-> IF k \in ks THEN [op |-> o, val |-> v] ELSE last[k]]
    /\ winOp' = [k \in Keys |-> IF k \in ks /\ InWindow THEN o ELSE winOp[k]]
    /\ mClean' = FALSE /\ fresh' = FALSE /\ calls' = calls + 1
    /\ dropped' = (dropped \/ o = "drop")
    /\ UNCHANGED <<mPre, mRows, atDown, downKind, crashPc>>

\* Database::check_db_error: DatabaseBroken once the error flag is set.
check_db_error(is_error) == IF is_error THEN "DatabaseBroken" ELSE "Ok"

\* A call that returns the error e at once and changes nothing.
Refused(e) ==
    /\ ret' = e /\ calls' = calls + 1
    /\ UNCHANGED <<disk, writing, stable, gen, keydir, db_error>>
    /\ UNCHANGED <<last, mPre, mRows, mClean, winOp, atDown, downKind, crashPc, fresh, dropped>>

\* Bitcask::put: check the error flag; then, under the keydir write lock,
\* append the row and publish its location.
Put(k, v) ==
    /\ alive /\ calls < budget
    /\ IF check_db_error(db_error) # "Ok"
       THEN Refused(check_db_error(db_error))
       ELSE /\ ~kdLock
            /\ LET db == DbWrite(MainDb, Row(k, v))
               IN  /\ SetMainDb(db)
                   /\ keydir' = kd_put(keydir, k, WrittenAt(db))
            /\ Wrote({k}, "put", v)
            /\ ret' = "Ok" /\ db_error' = db_error
    /\ UNCHANGED <<mdisk, meta, dirLock, inst, kdLock, mergeVars, getVars>>
    /\ UNCHANGED <<mergeLock, m2pc, probe>>
    /\ Track /\ UNCHANGED budget

\* A put that marks no error when its append fails.
mark_db_error_skipped(is_error) == is_error

\* Database::mark_db_error sets the error flag.
mark_db_error(is_error) == TRUE

\* Bitcask::put when the append of the row fails with an I/O error, at the
\* first write_row or at the one retried after a rollover: the error flag
\* is set, the error is returned and the keydir is not touched.
PutFails(k, v) ==
    /\ alive /\ calls < budget
    /\ check_db_error(db_error) = "Ok" /\ ~kdLock
    /\ SetMainDb(IF StorageOverflow(disk[writing])
                 THEN do_flush_writing_file(MainDb) ELSE MainDb)
    /\ db_error' = mark_db_error(db_error)
    /\ ret' = "IoError" /\ calls' = calls + 1
    /\ UNCHANGED keydir
    /\ UNCHANGED <<last, mPre, mRows, mClean, winOp, atDown, downKind, crashPc, fresh, dropped>>
    /\ UNCHANGED <<mdisk, meta, dirLock, inst, kdLock, mergeVars, getVars>>
    /\ UNCHANGED <<mergeLock, m2pc, probe>>
    /\ Track /\ UNCHANGED budget

\* Bitcask::delete: a key of the keydir gets a tombstone row and leaves the
\* keydir; any other key is left alone.
Delete(k) ==
    /\ alive /\ calls < budget
    /\ IF check_db_error(db_error) # "Ok"
       THEN Refused(check_db_error(db_error))
       ELSE /\ ~kdLock
            /\ IF has(k)
               THEN /\ SetMainDb(DbWrite(MainDb, Row(k, TOMBSTONE_VALUE)))
                    /\ keydir' = [keydir EXCEPT ![k] = NoEntry]
               ELSE UNCHANGED <<disk, writing, stable, gen, keydir>>
            /\ Wrote({k}, "delete", 0)
            /\ ret' = "Ok" /\ db_error' = db_error
    /\ UNCHANGED <<mdisk, meta, dirLock, inst, kdLock, mergeVars, getVars>>
    /\ UNCHANGED <<mergeLock, m2pc, probe>>
    /\ Track /\ UNCHANGED budget

\* Database::drop: roll the active file, delete every stable data file.
DatabaseDrop(db) ==
    LET f == do_flush_writing_file(db)
    IN  Db(Remove(f.files, f.stable), f.writing, {}, f.gen)

\* Bitcask::drop: under the keydir write lock, drop the database and clear
\* the keydir. The error flag is not looked at.
Drop ==
    /\ alive /\ ~kdLock /\ calls < budget
    /\ SetMainDb(DatabaseDrop(MainDb))
    /\ keydir' = EmptyKeyDir
    /\ Wrote(Keys, "drop", 0)
    /\ ret' = "Ok"
    /\ UNCHANGED <<mdisk, meta, dirLock, inst, kdLock, mergeVars, getVars>>
    /\ UNCHANGED <<mergeLock, m2pc, db_error, probe>>
    /\ Track /\ UNCHANGED budget

\* --------------------------------------------------------------------- get
\* Bitcask::get, first half: the check of the error flag and the keydir
\* lookup under the read lock.
GetLookup(k) ==
    /\ alive /\ gpc \in {"idle", "done"}
    /\ gkey' = k
    /\ IF check_db_error(db_error) # "Ok"
       THEN gpc' = "done" /\ gres' = Err(check_db_error(db_error)) /\ gentry' = NoEntry
       ELSE /\ ~kdLock
            /\ gentry' = keydir[k]
            /\ IF keydir[k] = NoEntry
               THEN gpc' = "done" /\ gres' = None
               ELSE gpc' = "read" /\ gres' = None
    /\ UNCHANGED <<diskVars, inst, memVars, mergeVars, histVars>>
    /\ UNCHANGED auxVars
    /\ Track /\ UNCHANGED budget

\* A get that marks the database broken when its read fails.
flag_after_failed_get(is_error, res) == is_error \/ res.kind \notin {"some", "none"}

\* Bitcask::get returns the error of read_value with `?`; unlike put it
\* does not call mark_db_error.
flag_after_get(is_error, res) == is_error

\* Bitcask::get, second half: Database::read_value, with no keydir lock held.
GetRead ==
    /\ alive /\ gpc = "read"
    /\ gres' = GetAt(disk, writing, stable, gentry)
    /\ gpc' = "done"
    /\ db_error' = flag_after_get(db_error, GetAt(disk, writing, stable, gentry))
    /\ UNCHANGED <<gkey, gentry, diskVars, inst, memVars, mergeVars, histVars>>
    /\ UNCHANGED <<mergeLock, m2pc, ret, probe>>
    /\ Track /\ UNCHANGED budget

\* ------------------------------------------------------------------- merge
MergeDb == Db(mdisk, mwriting, mstable, gen)

\* The merge lock: try_lock succeeds unless the lock is held.
try_lock(held) == ~held

\* A merge that starts although the merge lock was not acquired.
merge_entry_unchecked(acquired) == "running"

\* Merge step 1: without the merge lock the call fails with MergeInProgress.
merge_entry(acquired) == IF acquired THEN "running" ELSE "MergeInProgress"

\* An error return that keeps the merge lock.
merge_lock_kept(failed) == TRUE

\* The merge lock after a step of the protocol: an error return releases it.
merge_lock_after(failed) == ~failed

\* The thread running merge() is inside the protocol.
InMerge == mpc \notin {"idle", "done", "failed"}

\* Bitcask::merge is called: the database must not be broken, the merge
\* lock must be free and the scratch directory must be empty.
MergeBegin ==
    /\ alive /\ mpc = "idle" /\ calls < budget
    /\ mpc' = IF db_error \/ merge_entry(try_lock(mergeLock)) # "running"
                 \/ DOMAIN mdisk # {} \/ meta # <<>>
              THEN "failed" ELSE "snapshot"
    /\ mergeLock' = IF mpc' = "snapshot" THEN TRUE ELSE mergeLock
    /\ mPre' = [k \in Keys |-> GetNow(k)] /\ mRows' = TotalRows(disk) /\ mClean' = TRUE
    /\ winOp' = [k \in Keys |-> "none"]
    /\ calls' = calls + 1 /\ fresh' = FALSE
    /\ UNCHANGED <<diskVars, inst, memVars, getVars, known, snapshot, todo, new_kd,
                   mwriting, mstable, file_ids, last, atDown, downKind, crashPc, dropped>>
    /\ UNCHANGED <<m2pc, db_error, ret, probe>>
    /\ Track /\ UNCHANGED budget

\* Bitcask::flush_writing_file: under the keydir write lock, roll the
\* active file, note the id of the new active file and copy the keydir.
MergeSnapshot ==
    /\ alive /\ mpc = "snapshot" /\ ~kdLock
    /\ LET db == do_flush_writing_file(MainDb)
       IN  /\ SetMainDb(db)
           /\ known' = db.writing
    /\ snapshot' = keydir
    /\ todo' = {k \in Keys : keydir[k] # NoEntry}
    /\ mpc' = "open_db"
    /\ UNCHANGED <<mdisk, meta, dirLock, inst, keydir, kdLock, new_kd, mwriting, mstable,
                   file_ids, getVars, histVars>>
    /\ UNCHANGED auxVars
    /\ Track /\ UNCHANGED budget

\* write_merged_files: the merge database is opened on merge/ with the
\* generator of the main database.
MergeOpenDb ==
    /\ alive /\ mpc = "open_db"
    /\ LET db == DatabaseOpen(mdisk, gen)
       IN  /\ mdisk' = db.files /\ mwriting' = db.writing /\ mstable' = db.stable
           /\ gen' = db.gen
    /\ new_kd' = EmptyKeyDir
    /\ mpc' = "write"
    /\ UNCHANGED <<disk, meta, dirLock, inst, keydir, writing, stable, kdLock, known,
                   snapshot, todo, file_ids, getVars, histVars>>
    /\ UNCHANGED auxVars
    /\ Track /\ UNCHANGED budget

\* write_merged_files, one turn of the loop: read the value the snapshot
\* entry points at and, unless it is a tombstone, append it to the merge
\* database and note its new location.
MergeWriteRow ==
    /\ alive /\ mpc = "write" /\ todo # {}
    /\ \E k \in todo :
        LET v == ReadValue(disk, writing, stable, snapshot[k])
        IN  IF v.kind # "some"
            THEN /\ mpc' = "failed"
                 /\ UNCHANGED <<mdisk, mwriting, mstable, gen, new_kd, todo>>
            ELSE /\ mpc' = "write"
                 /\ todo' = todo \ {k}
                 /\ IF is_tombstone(v.val)
                    THEN UNCHANGED <<mdisk, mwriting, mstable, gen, new_kd>>
                    ELSE LET db == DbWrite(MergeDb, Row(k, v.val))
                         IN  /\ mdisk' = db.files /\ mwriting' = db.writing
                             /\ mstable' = db.stable /\ gen' = db.gen
                             /\ new_kd' = checked_put(new_kd, k, WrittenAt(db))
    /\ mergeLock' = merge_lock_after(mpc' = "failed")
    /\ UNCHANGED <<disk, meta, dirLock, inst, keydir, writing, stable, kdLock, known,
                   snapshot, file_ids, getVars, histVars>>
    /\ UNCHANGED <<m2pc, db_error, ret, probe>>
    /\ Track /\ UNCHANGED budget

\* write_merged_files, after the loop: flush the merge database and take
\* its file ids.
MergeFlushDb ==
    /\ alive /\ mpc = "write" /\ todo = {}
    /\ LET db == do_flush_writing_file(MergeDb)
       IN  /\ mdisk' = db.files /\ mwriting' = db.writing /\ mstable' = db.stable
           /\ gen' = db.gen
           /\ file_ids' = db.stable \cup {db.writing}
    /\ mpc' = "meta"
    /\ UNCHANGED <<disk, meta, dirLock, inst, keydir, writing, stable, kdLock, known,
                   snapshot, todo, new_kd, getVars, histVars>>
    /\ UNCHANGED auxVars
    /\ Track /\ UNCHANGED budget

\* merge.meta is written to the scratch directory.
MergeWriteMeta ==
    /\ alive /\ mpc = "meta"
    /\ meta' = <<known>>
    /\ mpc' = "commit"
    /\ UNCHANGED <<disk, mdisk, dirLock, inst, memVars, known, snapshot, todo, new_kd,
                   mwriting, mstable, file_ids, getVars, histVars>>
    /\ UNCHANGED auxVars
    /\ Track /\ UNCHANGED budget

\* commit_merge_files: one file is moved from merge/ into the directory.
MergeCommitFile ==
    /\ alive /\ mpc = "commit" /\ DOMAIN mdisk # {}
    /\ \E f \in DOMAIN mdisk :
        /\ disk' = disk @@ (f :> mdisk[f])
        /\ mdisk' = Remove(mdisk, {f})
    /\ UNCHANGED <<meta, dirLock, inst, memVars, mergeVars, getVars, histVars>>
    /\ UNCHANGED auxVars
    /\ Track /\ UNCHANGED budget

\* Bitcask::merge lines 162-165: take the keydir write lock and put every
\* merge-produced entry.
MergeOverlay ==
    /\ alive /\ mpc = "commit" /\ DOMAIN mdisk = {} /\ ~kdLock
    /\ kdLock' = TRUE
    /\ keydir' = Overlay(keydir, new_kd)
    /\ mpc' = "load"
    /\ UNCHANGED <<diskVars, inst, writing, stable, gen, known, snapshot, todo, new_kd,
                   mwriting, mstable, file_ids, getVars, histVars>>
    /\ UNCHANGED auxVars
    /\ Track /\ UNCHANGED budget

\* Bitcask::merge line 167: the database loads the merge-produced files.
MergeLoad ==
    /\ alive /\ mpc = "load"
    /\ SetMainDb(reload_data_files(MainDb, file_ids))
    /\ mpc' = "purge"
    /\ UNCHANGED <<mdisk, meta, dirLock, inst, keydir, kdLock, known, snapshot, todo,
                   new_kd, mwriting, mstable, file_ids, getVars, histVars>>
    /\ UNCHANGED auxVars
    /\ Track /\ UNCHANGED budget

\* Bitcask::merge line 168: one outdated data file is deleted.
MergePurgeFile ==
    /\ alive /\ mpc = "purge"
    /\ \E f \in PurgeSet(disk, file_ids, known) :
        disk' = Remove(disk, {f})
    /\ UNCHANGED <<mdisk, meta, dirLock, inst, memVars, mergeVars, getVars, histVars>>
    /\ UNCHANGED auxVars
    /\ Track /\ UNCHANGED budget

\* The purge is over: merge.meta is deleted and merge() returns Ok,
\* releasing the keydir write lock and the merge lock.
MergeFinish ==
    /\ alive /\ mpc = "purge" /\ PurgeSet(disk, file_ids, known) = {}
    /\ meta' = <<>>
    /\ kdLock' = FALSE
    /\ mergeLock' = FALSE
    /\ mpc' = "done"
    /\ UNCHANGED <<disk, mdisk, dirLock, inst, keydir, writing, stable, gen, known,
                   snapshot, todo, new_kd, mwriting, mstable, file_ids, getVars, histVars>>
    /\ UNCHANGED <<m2pc, db_error, ret, probe>>
    /\ Track /\ UNCHANGED budget

\* A second thread calls merge() while the first one is inside merge().
MergeSecond ==
    /\ alive /\ InMerge /\ m2pc = "idle" /\ ~db_error /\ calls < budget
    /\ IF merge_entry(try_lock(mergeLock)) = "running"
       THEN m2pc' = "running" /\ ret' = ret
       ELSE m2pc' = "idle" /\ ret' = "MergeInProgress"
    /\ calls' = calls + 1
    /\ UNCHANGED <<diskVars, inst, memVars, mergeVars, getVars, last, mPre, mRows, mClean, winOp,
                   atDown, downKind, crashPc, fresh, dropped, mergeLock, db_error, probe>>
    /\ Track /\ UNCHANGED budget

\* The caller of merge() goes on.
MergeReturn ==
    /\ alive /\ mpc \in {"done", "failed"}
    /\ IdleMerge
    /\ UNCHANGED <<diskVars, inst, memVars, getVars, histVars>>
    /\ UNCHANGED auxVars
    /\ Track /\ UNCHANGED budget

\* ------------------------------------------------------ close, crash, open
Down(h, kind) ==
    /\ inst' = [inst EXCEPT ![h] = "closed"]
    /\ dirLock' = FALSE
    /\ keydir' = EmptyKeyDir /\ writing' = 0 /\ stable' = {} /\ gen' = 0
    /\ kdLock' = FALSE
    /\ IdleMerge /\ IdleGet
    /\ atDown' = [k \in Keys |-> GetNow(k)]
    /\ downKind' = kind /\ crashPc' = mpc
    /\ calls' = calls + 1
    /\ last' = [k \in Keys |-> NoOp]
    /\ UNCHANGED <<disk, mdisk, meta, mPre, mRows, mClean, winOp, fresh, dropped>>
    /\ mergeLock' = FALSE /\ m2pc' = "idle" /\ db_error' = FALSE /\ ret' = "Ok"
    /\ UNCHANGED probe
    /\ Track /\ UNCHANGED budget

\* The instance is dropped with no call in flight: the directory is unlocked.
Close(h) ==
    /\ inst[h] = "open" /\ mpc = "idle" /\ gpc # "read" /\ calls < budget
    /\ Down(h, "close")

\* The process is killed while merge() runs.
Crash(h) ==
    /\ inst[h] = "open" /\ mpc \notin {"idle", "done", "failed"}
    /\ calls < budget
    /\ Down(h, "crash")

\* The process is killed in the middle of an append to the active file:
\* a torn row is left at the end of the file.
TornCrash(h) ==
    /\ inst[h] = "open" /\ mpc = "idle" /\ gpc # "read" /\ calls < budget
    /\ disk' = [disk EXCEPT ![writing].rows = Append(@, TornRow)]
    /\ inst' = [inst EXCEPT ![h] = "closed"]
    /\ dirLock' = FALSE
    /\ keydir' = EmptyKeyDir /\ writing' = 0 /\ stable' = {} /\ gen' = 0
    /\ kdLock' = FALSE
    /\ IdleMerge /\ IdleGet
    /\ atDown' = [k \in Keys |-> GetNow(k)]
    /\ downKind' = "crash" /\ crashPc' = mpc
    /\ calls' = calls + 1
    /\ last' = [k \in Keys |-> NoOp]
    /\ UNCHANGED <<mdisk, meta, mPre, mRows, mClean, winOp, fresh, dropped>>
    /\ mergeLock' = FALSE /\ m2pc' = "idle" /\ db_error' = FALSE /\ ret' = "Ok"
    /\ UNCHANGED probe
    /\ Track /\ UNCHANGED budget

\* fs::lock_directory: the lock is acquired unless it is held.
lock_directory(held) == ~held

\* An open that goes on although the directory lock was not acquired.
open_outcome_unchecked(acquired) == "locked"

\* Bitcask::open lines 140-147: without the lock the open fails with
\* LockDirectoryFailed.
open_outcome(acquired) == IF acquired THEN "locked" ELSE "LockDirectoryFailed"

OpenLock(h) ==
    /\ inst[h] \in {"closed", "LockDirectoryFailed"}
    /\ inst' = [inst EXCEPT ![h] = open_outcome(lock_directory(dirLock))]
    /\ dirLock' = TRUE
    /\ UNCHANGED <<disk, mdisk, meta, memVars, mergeVars, getVars, histVars>>
    /\ UNCHANGED auxVars
    /\ Track /\ UNCHANGED budget

\* Bitcask::open lines 149-177: recover an interrupted merge, open the
\* database with a new generator, rebuild the keydir.
OpenLoad(h) ==
    /\ inst[h] = "locked"
    /\ LET r == recover_merge(disk, mdisk, meta)
           db == DatabaseOpen(r.disk, 0)
       IN  /\ SetMainDb(db)
           /\ mdisk' = r.mdisk /\ meta' = r.meta
           /\ keydir' = KeyDirNew(db)
    /\ inst' = [inst EXCEPT ![h] = "open"]
    /\ kdLock' = FALSE
    /\ IdleMerge /\ IdleGet
    /\ fresh' = TRUE /\ dropped' = FALSE
    /\ UNCHANGED <<dirLock, last, mPre, mRows, mClean, winOp, atDown, downKind, crashPc, calls>>
    /\ UNCHANGED auxVars
    /\ Track /\ UNCHANGED budget

\* ------------------------------------------------------- writes under test
\* A put of a row of some size on an active file of some size, under some
\* positive max_data_file_size that the file does not exceed.
InitWrite ==
    /\ InitStore
    /\ budget = MaxCalls
    /\ \E m \in 1..MaxSize, f \in 0..MaxSize, r \in 1..MaxSize :
          /\ f <= m
          /\ probe = [op |-> "put", file_size |-> f, row_size |-> r,
                      max_data_file_size |-> m, ret |-> "none", db_error |-> FALSE]

\* The put is made.
ProbePut ==
    /\ probe.op = "put" /\ probe.ret = "none"
    /\ LET o == put_outcome(probe.file_size, probe.row_size, probe.max_data_file_size)
       IN  probe' = [probe EXCEPT !.ret = o.ret, !.db_error = o.db_error]
    /\ UNCHANGED <<diskVars, inst, memVars, mergeVars, getVars, histVars, maxId, budget,
                   mergeLock, m2pc, db_error, ret>>

SpecWrite == InitWrite /\ [][ProbePut]_vars

\* ------------------------------------------- puts of any value within size
\* The values put accepts: every byte string within max_value_size, the
\* bytes of TOMBSTONE_VALUE among them (put checks the sizes only).
AcceptedValues == Values \cup {TOMBSTONE_VALUE}

NextAny ==
    \/ \E k \in Keys, v \in AcceptedValues : Put(k, v)
    \/ \E k \in Keys : Delete(k)
    \/ \E k \in Keys : GetLookup(k)
    \/ GetRead

SpecAny == Init /\ [][NextAny]_vars

\* -------------------------------------------------------- reads under test
\* RowToWrite::new_with_timestamp: the checksum over timestamp, key size,
\* value size, key and value, in this order. Like CRC-32 on one altered
\* byte, it changes whenever one of the fields changes; the sums stay far
\* below 2^32.
crc(timestamp, key_size, value_size, key, value) ==
    timestamp + 3 * key_size + 5 * value_size + 7 * key + 11 * value

\* RowToWrite::to_bytes: crc, timestamp, sizes, key, value. Keys and values
\* take one unit each.
to_bytes(timestamp, key, value) ==
    [crc |-> crc(timestamp, 1, 1, key, value), timestamp |-> timestamp,
     key_size |-> 1, value_size |-> 1, key |-> key, value |-> value]

\* The fields of a stored row from the start of the timestamp to the end
\* of the value.
CoveredFields == {"timestamp", "key_size", "value_size", "key", "value"}

\* The row decoder: CrcCheckFailed when the recomputed checksum differs
\* from the stored one, the value otherwise.
decode(bytes) ==
    IF crc(bytes.timestamp, bytes.key_size, bytes.value_size, bytes.key, bytes.value)
           # bytes.crc
    THEN Err("CrcCheckFailed")
    ELSE Some(bytes.value)

\* DataStorage::read_value: every error of the file's read_value is turned
\* into ReadRowFailed carrying the error's text.
storage_read_value(bytes) ==
    IF decode(bytes).kind # "some" THEN Err("ReadRowFailed") ELSE decode(bytes)

\* Bitcask::get on a key whose keydir entry points at the row: the error
\* of the read is returned, a tombstone is None, any other value is Some.
get_row(bytes) ==
    LET v == storage_read_value(bytes)
    IN  IF v.kind # "some" THEN v
        ELSE IF is_tombstone(v.val) THEN None ELSE v

\* A row was written, one of its covered fields has been altered on disk,
\* and a get of its key is about to be made.
InitCrc ==
    /\ InitStore
    /\ budget = MaxCalls
    /\ \E t \in 0..1, k \in Keys, v \in Values \cup {TOMBSTONE_VALUE},
          f \in CoveredFields, x \in 0..MaxAltered :
          /\ to_bytes(t, k, v)[f] # x
          /\ probe = [op |-> "get", written |-> to_bytes(t, k, v),
                      bytes |-> [to_bytes(t, k, v) EXCEPT ![f] = x],
                      ret |-> [kind |-> "pending", val |-> 0]]

\* The get is made.
ProbeGet ==
    /\ probe.op = "get" /\ probe.ret.kind = "pending"
    /\ probe' = [probe EXCEPT !.ret = get_row(probe.bytes)]
    /\ UNCHANGED <<diskVars, inst, memVars, mergeVars, getVars, histVars, maxId, budget,
                   mergeLock, m2pc, db_error, ret>>

SpecCrc == InitCrc /\ [][ProbeGet]_vars

\* ------------------------------------------------ the database under test
\* A fresh Database, driven as its tests drive it: probe counts the writes,
\* the writes that rolled the active file over, the calls of
\* flush_writing_file, whether a row was written since the last of them and
\* whether each of them was preceded by a write.
InitFlush ==
    /\ InitStore
    /\ budget = MaxCalls
    /\ probe = [op |-> "flush", writes |-> 0, rolls |-> 0, flushes |-> 0,
                dirty |-> FALSE, regular |-> TRUE]

\* Database::write of one row.
DatabaseWrite(k, v) ==
    /\ probe.op = "flush" /\ probe.writes + probe.flushes < MaxOps
    /\ SetMainDb(DbWrite(MainDb, Row(k, v)))
    /\ probe' = [probe EXCEPT !.writes = @ + 1, !.dirty = TRUE,
                              !.rolls = IF StorageOverflow(disk[writing]) THEN @ + 1 ELSE @]
    /\ UNCHANGED <<mdisk, meta, dirLock, inst, keydir, kdLock, mergeVars, getVars, histVars,
                   budget, mergeLock, m2pc, db_error, ret>>
    /\ Track

\* Database::flush_writing_file.
FlushWritingFile ==
    /\ probe.op = "flush" /\ probe.writes + probe.flushes < MaxOps
    /\ SetMainDb(do_flush_writing_file(MainDb))
    /\ probe' = [probe EXCEPT !.flushes = @ + 1, !.dirty = FALSE,
                              !.regular = @ /\ probe.dirty]
    /\ UNCHANGED <<mdisk, meta, dirLock, inst, keydir, kdLock, mergeVars, getVars, histVars,
                   budget, mergeLock, m2pc, db_error, ret>>
    /\ Track

NextFlush ==
    \/ \E k \in Keys, v \in Values : DatabaseWrite(k, v)
    \/ FlushWritingFile

SpecFlush == InitFlush /\ [][NextFlush]_vars

\* -------------------------------------------------- the reopen under test
\* Offsets count rows: the header takes the first unit of a data file and
\* every row one more.
FILE_HEADER_SIZE == 1

\* The length of a data file that holds the given rows.
file_len(rows) == FILE_HEADER_SIZE + Len(rows)

\* DataStorage::open: a read-only file is opened with write offset
\* meta.len(); a writable one with FILE_HEADER_SIZE, and the loop that
\* follows runs over Result::iter of the opened storage, whose rows it
\* does not read and whose write offset it leaves where it is.
open_write_offset(rows, readonly) ==
    IF ~readonly THEN FILE_HEADER_SIZE ELSE file_len(rows)

\* write_row of the file storage: the row goes to the write offset, which
\* is the row_offset of the RowLocation returned.
write_row_at(rows, write_offset, row) ==
    LET i == write_offset - FILE_HEADER_SIZE + 1
    IN  IF i <= Len(rows) THEN [rows EXCEPT ![i] = row] ELSE Append(rows, row)

\* read_value of the file storage: the row that starts at the offset.
row_at(rows, row_offset) == rows[row_offset - FILE_HEADER_SIZE + 1]

\* A fresh Database as in test_recovery: probe holds the write offset of
\* the active storage, the rows written with the RowLocation each write
\* returned, and whether the next write is the first after an open.
InitReopen ==
    /\ InitStore
    /\ budget = MaxCalls
    /\ probe = [op |-> "reopen", write_offset |-> FILE_HEADER_SIZE, written |-> {},
                first |-> FALSE, ops |-> 0]

\* Database::write of a row that fits in the active file.
ReopenWrite(k, v) ==
    /\ probe.op = "reopen" /\ probe.ops < MaxOps
    /\ disk' = [disk EXCEPT ![writing].rows =
                    write_row_at(@, probe.write_offset, Row(k, v))]
    /\ probe' = [probe EXCEPT !.write_offset = @ + 1, !.first = FALSE, !.ops = @ + 1,
                              !.written = @ \cup {[file_id |-> writing,
                                                   row_offset |-> probe.write_offset,
                                                   row |-> Row(k, v)]}]
    /\ UNCHANGED <<mdisk, meta, dirLock, inst, memVars, mergeVars, getVars, histVars,
                   budget, mergeLock, m2pc, db_error, ret>>
    /\ Track

\* The Database is dropped and Database::open is called on the directory
\* with the same generator.
Reopen ==
    /\ probe.op = "reopen" /\ probe.ops < MaxOps
    /\ LET db == DatabaseOpen(disk, gen)
       IN  /\ SetMainDb(db)
           /\ probe' = [probe EXCEPT !.ops = @ + 1, !.first = TRUE,
                                     !.write_offset =
                                         open_write_offset(db.files[db.writing].rows,
                                                           db.files[db.writing].readonly)]
    /\ UNCHANGED <<mdisk, meta, dirLock, inst, keydir, kdLock, mergeVars, getVars, histVars,
                   budget, mergeLock, m2pc, db_error, ret>>
    /\ Track

NextReopen ==
    \/ \E k \in Keys, v \in Values : ReopenWrite(k, v)
    \/ Reopen

SpecReopen == InitReopen /\ [][NextReopen]_vars

\* ------------------------------------------- threads calling put and delete
Threads == 1..NumThreads
\* The key the threads contend for.
SharedKeys == {CHOOSE k \in Keys : \A j \in Keys : k <= j}
IdleThread == [pc |-> "idle", kind |-> "none", key |-> 0, val |-> 0, loc |-> NoEntry]

\* A write lock that is handed out although the lock is held.
keydir_write_unguarded(held) == TRUE

\* RwLock::write on the keydir: granted when no guard is out.
keydir_write(held) == ~held

\* One open store and NumThreads threads; probe holds where each thread
\* stands in its call, the rows in the order they were appended and the
\* rows in the order the keydir was updated for them.
InitThreads ==
    /\ InitStore
    /\ budget = MaxCalls
    /\ probe = [op |-> "threads", th |-> [t \in Threads |-> IdleThread],
                appended |-> <<>>, indexed |-> <<>>, ops |-> 0]

\* A thread calls put(k, v) or delete(k); check_db_error passes.
ThreadCall(t, kind, k, v) ==
    /\ probe.op = "threads" /\ probe.th[t].pc \in {"idle", "done"}
    /\ probe.ops < MaxThreadOps /\ check_db_error(db_error) = "Ok"
    /\ probe' = [probe EXCEPT !.ops = @ + 1,
                              !.th[t] = [pc |-> "lock", kind |-> kind, key |-> k,
                                         val |-> v, loc |-> NoEntry]]
    /\ UNCHANGED <<diskVars, inst, memVars, mergeVars, getVars, histVars, maxId, budget,
                   mergeLock, m2pc, db_error, ret>>

\* self.keydir.write()
ThreadLock(t) ==
    /\ probe.op = "threads" /\ probe.th[t].pc = "lock"
    /\ keydir_write(kdLock)
    /\ kdLock' = TRUE
    /\ probe' = [probe EXCEPT !.th[t].pc = "write"]
    /\ UNCHANGED <<diskVars, inst, keydir, writing, stable, gen, mergeVars, getVars, histVars,
                   maxId, budget, mergeLock, m2pc, db_error, ret>>

\* self.database.write: put appends its row; delete appends a tombstone if
\* the keydir contains the key and returns otherwise.
ThreadWrite(t) ==
    /\ probe.op = "threads" /\ probe.th[t].pc = "write"
    /\ LET c == probe.th[t]
       IN  IF c.kind = "put" \/ has(c.key)
           THEN LET db == DbWrite(MainDb, Row(c.key, c.val))
                IN  /\ SetMainDb(db)
                    /\ probe' = [probe EXCEPT
                                    !.th[t].pc = "index", !.th[t].loc = WrittenAt(db),
                                    !.appended = Append(@, [c EXCEPT !.pc = "index",
                                                                    !.loc = WrittenAt(db)])]
           ELSE /\ UNCHANGED <<disk, writing, stable, gen>>
                /\ probe' = [probe EXCEPT !.th[t].pc = "unlock"]
    /\ UNCHANGED <<mdisk, meta, dirLock, inst, keydir, kdLock, mergeVars, getVars, histVars,
                   budget, mergeLock, m2pc, db_error, ret>>
    /\ Track

\* kd.put(key, ret) or kd.delete(key)
ThreadIndex(t) ==
    /\ probe.op = "threads" /\ probe.th[t].pc = "index"
    /\ LET c == probe.th[t]
       IN  /\ keydir' = IF c.kind = "put" THEN kd_put(keydir, c.key, c.loc)
                         ELSE [keydir EXCEPT ![c.key] = NoEntry]
           /\ probe' = [probe EXCEPT !.th[t].pc = "unlock", !.indexed = Append(@, c)]
    /\ UNCHANGED <<diskVars, inst, writing, stable, gen, kdLock, mergeVars, getVars, histVars,
                   maxId, budget, mergeLock, m2pc, db_error, ret>>

\* The call returns and its guard is dropped.
ThreadUnlock(t) ==
    /\ probe.op = "threads" /\ probe.th[t].pc = "unlock"
    /\ kdLock' = FALSE
    /\ probe' = [probe EXCEPT !.th[t].pc = "done"]
    /\ UNCHANGED <<diskVars, inst, keydir, writing, stable, gen, mergeVars, getVars, histVars,
                   maxId, budget, mergeLock, m2pc, db_error, ret>>

NextThreads ==
    \/ \E t \in Threads, k \in SharedKeys, v \in Values : ThreadCall(t, "put", k, v)
    \/ \E t \in Threads, k \in SharedKeys : ThreadCall(t, "delete", k, TOMBSTONE_VALUE)
    \/ \E t \in Threads : ThreadLock(t)
    \/ \E t \in Threads : ThreadWrite(t)
    \/ \E t \in Threads : ThreadIndex(t)
    \/ \E t \in Threads : ThreadUnlock(t)
    \/ \E k \in SharedKeys : GetLookup(k)
    \/ GetRead

SpecThreads == InitThreads /\ [][NextThreads]_vars

\* ------------------------------------------------- the locks a call takes
\* acq/rel: a mutex (err: the sticky error, wf: the writable file, sf: a
\* stable file); rd/urd and wr/uwr: the keydir reader-writer lock; try/rel
\* on merge: the single-slot merge lock.
put_locks ==
    << <<"acq", "err">>, <<"rel", "err">>, <<"wr", "kd">>, <<"acq", "wf">>, <<"rel", "wf">>,
       <<"acq", "err">>, <<"rel", "err">>, <<"uwr", "kd">> >>

get_locks ==
    << <<"acq", "err">>, <<"rel", "err">>, <<"rd", "kd">>, <<"urd", "kd">>,
       <<"acq", "wf">>, <<"rel", "wf">>, <<"acq", "sf">>, <<"rel", "sf">> >>

has_locks == << <<"acq", "err">>, <<"rel", "err">>, <<"rd", "kd">>, <<"urd", "kd">> >>

delete_locks ==
    << <<"acq", "err">>, <<"rel", "err">>, <<"wr", "kd">>, <<"acq", "wf">>, <<"rel", "wf">>,
       <<"uwr", "kd">> >>
\* foreach and fold: the keydir read guard is held over Database::iter,
\* which locks each stable file while it holds the writable file.
foreach_locks ==
    << <<"acq", "err">>, <<"rel", "err">>, <<"rd", "kd">>, <<"acq", "wf">>, <<"acq", "sf">>,
       <<"rel", "sf">>, <<"rel", "wf">>, <<"urd", "kd">> >>

\* A stats that takes the writable file before the keydir.
stats_locks_inverted ==
    << <<"acq", "wf">>, <<"rd", "kd">>, <<"urd", "kd">>, <<"acq", "sf">>, <<"rel", "sf">>,
       <<"rel", "wf">> >>

stats_locks ==
    << <<"rd", "kd">>, <<"acq", "wf">>, <<"rel", "wf">>, <<"acq", "sf">>, <<"rel", "sf">>,
       <<"urd", "kd">> >>

sync_locks == << <<"acq", "wf">>, <<"rel", "wf">> >>

drop_locks ==
    << <<"wr", "kd">>, <<"acq", "wf">>, <<"rel", "wf">>, <<"acq", "sf">>, <<"rel", "sf">>,
       <<"acq", "err">>, <<"rel", "err">>, <<"uwr", "kd">> >>
\* merge: check_db_error, the merge lock, flush and get_max_file_id under
\* the keydir write lock, read_value for the snapshot, then the overlay
\* and load_files under the keydir write lock, then the merge lock released.
merge_locks ==
    << <<"acq", "err">>, <<"rel", "err">>, <<"try", "merge">>,
       <<"wr", "kd">>, <<"acq", "wf">>, <<"rel", "wf">>, <<"acq", "wf">>, <<"rel", "wf">>,
       <<"uwr", "kd">>,
       <<"acq", "wf">>, <<"rel", "wf">>, <<"acq", "sf">>, <<"rel", "sf">>,
       <<"wr", "kd">>, <<"acq", "wf">>, <<"rel", "wf">>, <<"uwr", "kd">>,
       <<"rel", "merge">> >>

LockCalls == {"put", "get", "has", "delete", "foreach", "fold", "stats", "sync", "drop", "merge"}

LocksOf(c) ==
    CASE c = "put" -> put_locks
      [] c = "get" -> get_locks
      [] c = "has" -> has_locks
      [] c = "delete" -> delete_locks
      [] c \in {"foreach", "fold"} -> foreach_locks
      [] c = "stats" -> stats_locks
      [] c = "sync" -> sync_locks
      [] c = "drop" -> drop_locks
      [] c = "merge" -> merge_locks

Mutexes == {"err", "wf", "sf", "merge"}

NoCall == [call |-> "none", pc |-> 0]

\* probe holds each thread's call and the next lock operation of it, the
\* holder of every mutex (0: free), the keydir's writer and its readers.
InitLocks ==
    /\ InitStore
    /\ budget = MaxCalls
    /\ probe = [op |-> "locks", th |-> [t \in Threads |-> NoCall],
                held |-> [l \in Mutexes |-> 0], kdw |-> 0, kdr |-> {}, ops |-> 0]

Busy(t) == probe.th[t].call # "none"

NextLockOp(t) == LocksOf(probe.th[t].call)[probe.th[t].pc]
\* A thread is queued for the keydir write lock.
WriterWaiting == \E t \in Threads : Busy(t) /\ NextLockOp(t)[1] = "wr"

\* Whether the thread's next lock operation can go on now. A mutex is
\* granted when free; the keydir is granted to a writer when it has no
\* holder and to a reader when no writer holds it or waits for it;
\* try_lock and every release never wait.
CanStep(t) ==
    /\ Busy(t)
    /\ LET o == NextLockOp(t)
       IN  CASE o[1] = "acq" -> probe.held[o[2]] = 0
             [] o[1] = "wr" -> probe.kdw = 0 /\ probe.kdr = {}
             [] o[1] = "rd" -> probe.kdw = 0 /\ ~WriterWaiting
             [] OTHER -> TRUE

LockCall(t, c) ==
    /\ probe.op = "locks" /\ ~Busy(t) /\ probe.ops < MaxLockCalls
    /\ probe' = [probe EXCEPT !.ops = @ + 1, !.th[t] = [call |-> c, pc |-> 1]]
    /\ UNCHANGED <<diskVars, inst, memVars, mergeVars, getVars, histVars, maxId, budget,
                   mergeLock, m2pc, db_error, ret>>

\* The thread performs its next lock operation; after the last one, or
\* when try_lock finds the merge lock held, the call returns.
LockStep(t) ==
    /\ probe.op = "locks" /\ CanStep(t)
    /\ LET o == NextLockOp(t)
           c == probe.th[t]
           rejected == o[1] = "try" /\ probe.held[o[2]] # 0
           after == IF rejected \/ c.pc = Len(LocksOf(c.call)) THEN NoCall
                    ELSE [c EXCEPT !.pc = @ + 1]
       IN  probe' = [probe EXCEPT
                        !.th[t] = after,
                        !.held = IF o[1] = "acq" \/ (o[1] = "try" /\ ~rejected)
                                 THEN [@ EXCEPT ![o[2]] = t]
                                 ELSE IF o[1] = "rel" THEN [@ EXCEPT ![o[2]] = 0] ELSE @,
                        !.kdw = IF o[1] = "wr" THEN t ELSE IF o[1] = "uwr" THEN 0 ELSE @,
                        !.kdr = IF o[1] = "rd" THEN @ \cup {t}
                                ELSE IF o[1] = "urd" THEN @ \ {t} ELSE @]
    /\ UNCHANGED <<diskVars, inst, memVars, mergeVars, getVars, histVars, maxId, budget,
                   mergeLock, m2pc, db_error, ret>>

NextLocks ==
    \/ \E t \in Threads, c \in LockCalls : LockCall(t, c)
    \/ \E t \in Threads : LockStep(t)

\* Every thread that can take its next lock operation is scheduled.
SpecLocks == InitLocks /\ [][NextLocks]_vars /\ \A t \in Threads : WF_vars(LockStep(t))

\* -------------------------------------------------------- opens under test
\* A validate that lets every BitcaskOptions through.
validate_passes(o) == "None"

\* BitcaskOptions::validate: the four sizes are checked in turn; the name
\* reported for init_data_file_capacity is "max_file_size".
validate(o) ==
    IF o.max_data_file_size = 0 THEN "max_file_size"
    ELSE IF o.init_data_file_capacity = 0 THEN "max_file_size"
    ELSE IF o.max_key_size = 0 THEN "max_key_size"
    ELSE IF o.max_value_size = 0 THEN "max_value_size"
    ELSE "None"

BitcaskOptions ==
    [max_data_file_size : 0..MaxOpt, init_data_file_capacity : 0..MaxOpt,
     max_key_size : 0..MaxOpt, max_value_size : 0..MaxOpt]

\* An empty, unlocked directory and an open that is about to be made on it
\* with some options.
InitOpen ==
    /\ disk = NoFiles /\ mdisk = NoFiles /\ meta = <<>> /\ dirLock = FALSE
    /\ inst = [h \in Handles |-> "closed"]
    /\ keydir = EmptyKeyDir /\ writing = 0 /\ stable = {} /\ gen = 0 /\ kdLock = FALSE
    /\ mpc = "idle" /\ known = 0 /\ snapshot = EmptyKeyDir /\ todo = {}
    /\ new_kd = EmptyKeyDir /\ mwriting = 0 /\ mstable = {} /\ file_ids = {}
    /\ gpc = "idle" /\ gkey = 0 /\ gentry = NoEntry /\ gres = None
    /\ last = [k \in Keys |-> NoOp]
    /\ mPre = [k \in Keys |-> None] /\ mRows = 0 /\ mClean = TRUE
    /\ winOp = [k \in Keys |-> "none"]
    /\ atDown = [k \in Keys |-> None] /\ downKind = "none" /\ crashPc = "idle"
    /\ fresh = TRUE /\ dropped = FALSE /\ calls = 0
    /\ maxId = 0 /\ budget = MaxCalls
    /\ mergeLock = FALSE /\ m2pc = "idle" /\ db_error = FALSE /\ ret = "Ok"
    /\ \E o \in BitcaskOptions : probe = [op |-> "open", options |-> o, ret |-> "none"]

\* Bitcask::open by handle 1: the options are validated first; an invalid
\* option returns InvalidParameter before anything else is done. Otherwise
\* the directory is locked and the database is opened, which creates the
\* first data file.
ProbeOpen ==
    /\ probe.op = "open" /\ probe.ret = "none"
    /\ IF validate(probe.options) # "None"
       THEN /\ probe' = [probe EXCEPT !.ret = "InvalidParameter"]
            /\ UNCHANGED <<disk, writing, stable, gen, keydir, dirLock, inst>>
       ELSE /\ probe' = [probe EXCEPT !.ret = open_outcome(lock_directory(dirLock))]
            /\ dirLock' = TRUE
            /\ inst' = [inst EXCEPT ![1] = "open"]
            /\ LET db == DatabaseOpen(disk, 0)
               IN  SetMainDb(db) /\ keydir' = KeyDirNew(db)
    /\ UNCHANGED <<mdisk, meta, kdLock, mergeVars, getVars, histVars,
                   mergeLock, m2pc, db_error, ret>>
    /\ Track /\ UNCHANGED budget

SpecValidate == InitOpen /\ [][ProbeOpen]_vars

\* ------------------------------------------------------------ specification
Next ==
    \/ \E k \in Keys, v \in Values : Put(k, v)
    \/ \E k \in Keys : Delete(k)
    \/ Drop
    \/ \E k \in Keys : GetLookup(k)
    \/ GetRead
    \/ MergeBegin
    \/ MergeSnapshot
    \/ MergeOpenDb
    \/ MergeWriteRow
    \/ MergeFlushDb
    \/ MergeWriteMeta
    \/ MergeCommitFile
    \/ MergeOverlay
    \/ MergeLoad
    \/ MergePurgeFile
    \/ MergeFinish
    \/ MergeReturn
    \/ Close(1)
    \/ Crash(1)
    \/ OpenLock(1)
    \/ OpenLoad(1)

Spec == Init /\ [][Next]_vars

\* The operations that create, fill, seal, move or delete data files; the
\* value a put writes makes no difference to them.
NextFiles ==
    \/ \E k \in Keys : Put(k, 1)
    \/ \E k \in Keys : Delete(k)
    \/ Drop
    \/ MergeBegin
    \/ MergeSnapshot
    \/ MergeOpenDb
    \/ MergeWriteRow
    \/ MergeFlushDb
    \/ MergeWriteMeta
    \/ MergeCommitFile
    \/ MergeOverlay
    \/ MergeLoad
    \/ MergePurgeFile
    \/ MergeFinish
    \/ MergeReturn
    \/ Close(1)
    \/ Crash(1)
    \/ OpenLock(1)
    \/ OpenLoad(1)

SpecFiles == Init /\ [][NextFiles]_vars

\* Gets next to the writes and the merge whose reload makes reads fail.
NextGet ==
    \/ \E k \in Keys : Put(k, 1)
    \/ \E k \in Keys : Delete(k)
    \/ \E k \in Keys : GetLookup(k)
    \/ GetRead
    \/ MergeBegin
    \/ MergeSnapshot
    \/ MergeOpenDb
    \/ MergeWriteRow
    \/ MergeFlushDb
    \/ MergeWriteMeta
    \/ MergeCommitFile
    \/ MergeOverlay
    \/ MergeLoad
    \/ MergePurgeFile
    \/ MergeFinish
    \/ MergeReturn

SpecGet == InitGet /\ [][NextGet]_vars

\* Puts, deletes and merges on one open instance.
NextMerge ==
    \/ \E k \in Keys, v \in Values : Put(k, v)
    \/ \E k \in Keys : Delete(k)
    \/ MergeBegin
    \/ MergeSnapshot
    \/ MergeOpenDb
    \/ MergeWriteRow
    \/ MergeFlushDb
    \/ MergeWriteMeta
    \/ MergeCommitFile
    \/ MergeOverlay
    \/ MergeLoad
    \/ MergePurgeFile
    \/ MergeFinish
    \/ MergeReturn

SpecMerge == Init /\ [][NextMerge]_vars

\* The same operations over histories of up to MaxCallsLong calls.
SpecMergeLong == InitLong /\ [][NextMerge]_vars

\* Writes, kills in the middle of an append, closes and opens by one handle.
NextTorn ==
    \/ \E k \in Keys : Put(k, 1)
    \/ \E k \in Keys : Delete(k)
    \/ TornCrash(1)
    \/ Close(1)
    \/ OpenLock(1)
    \/ OpenLoad(1)

SpecTorn == Init /\ [][NextTorn]_vars

\* Several handles opening and closing the directory, with writes between.
NextOpen ==
    \/ \E k \in Keys, v \in Values : Put(k, v)
    \/ \E k \in Keys : Delete(k)
    \/ \E h \in Handles : Close(h)
    \/ \E h \in Handles : OpenLock(h)
    \/ \E h \in Handles : OpenLoad(h)

SpecOpen == Init /\ [][NextOpen]_vars

\* Puts and merges on one open instance, with a second thread calling merge().
NextLock ==
    \/ \E k \in Keys, v \in Values : Put(k, v)
    \/ MergeBegin
    \/ MergeSnapshot
    \/ MergeOpenDb
    \/ MergeWriteRow
    \/ MergeFlushDb
    \/ MergeWriteMeta
    \/ MergeCommitFile
    \/ MergeOverlay
    \/ MergeLoad
    \/ MergePurgeFile
    \/ MergeFinish
    \/ MergeReturn
    \/ MergeSecond

SpecLock == Init /\ [][NextLock]_vars

\* Every call of the facade, with puts whose append may fail.
NextErr ==
    \/ Next
    \/ \E k \in Keys, v \in Values : PutFails(k, v)

SpecErr == Init /\ [][NextErr]_vars

\* Puts whose append may fail, with deletes and gets.
NextPut ==
    \/ \E k \in Keys, v \in Values : Put(k, v)
    \/ \E k \in Keys, v \in Values : PutFails(k, v)
    \/ \E k \in Keys : Delete(k)
    \/ \E k \in Keys : GetLookup(k)
    \/ GetRead

SpecPut == Init /\ [][NextPut]_vars

\* Sanity of the model: what is loaded is on disk.
TypeOK ==
    /\ alive => writing \in DOMAIN disk
    /\ calls \in 0..budget

\* ------------------------------------------------------------------ claims
\* C1: once put(k,v) has returned, a get(k) returns Some(v) until a later
\* put, delete or drop on k completes, whatever else happens in between.
ReadYourWrites ==
    (alive /\ ~kdLock) =>
        \A k \in Keys : last[k].op = "put" => GetNow(k) = Some(last[k].val)

\* C2: once delete(k) has returned, a get(k) returns None until a later put
\* on k completes, whatever else happens in between.
DeleteSemantics ==
    (alive /\ ~kdLock) =>
        \A k \in Keys : last[k].op = "delete" => GetNow(k) = None

\* C3: after a close and a reopen every get returns what it returned just
\* before the close.
ReopenPreserves ==
    (alive /\ fresh /\ downKind = "close") =>
        \A k \in Keys : GetNow(k) = atDown[k]

\* C4: a merge() that returns Ok, with no put, delete or drop completed
\* since it was called, leaves the result of get unchanged for every key.
MergeKeepsGet ==
    (mpc = "done" /\ mClean) =>
        \A k \in Keys : GetNow(k) = mPre[k]

\* C5: a put that returned between the snapshot and the overlay of a merge
\* is what get returns after the merge has finished.
PutSurvivesMerge ==
    mpc = "done" =>
        \A k \in Keys : (winOp[k] = "put" /\ last[k].op = "put") =>
            GetNow(k) = Some(last[k].val)

\* C6: a delete that returned between the snapshot and the overlay of a
\* merge is not undone: after the merge get and has report the key absent.
DeleteSurvivesMerge ==
    mpc = "done" =>
        \A k \in Keys : (winOp[k] = "delete" /\ last[k].op = "delete") =>
            (GetNow(k) = None /\ ~has(k))

\* C7: a get running concurrently with puts and with a merge never fails.
GetNeverFails ==
    (gpc = "done" /\ ~dropped) => gres.kind \in {"some", "none"}

\* C8: after a crash inside merge() and a reopen every get returns what it
\* returned just before the crash.
MergeCrashSafe ==
    (alive /\ fresh /\ downKind = "crash") =>
        \A k \in Keys : GetNow(k) = atDown[k]

\* C9: with the keydir write lock free, every keydir entry points at a row
\* of a file that is on disk and loaded, with the entry's key and a value
\* that is not the tombstone.
KeydirValid ==
    (alive /\ ~kdLock) =>
        \A k \in Keys : has(k) =>
            LET e == keydir[k]
            IN  /\ e.file_id \in DOMAIN disk
                /\ e.file_id \in stable \cup {writing}
                /\ e.row_offset \in 1..Len(disk[e.file_id].rows)
                /\ disk[e.file_id].rows[e.row_offset].key = k
                /\ ~is_tombstone(disk[e.file_id].rows[e.row_offset].value)

\* C10: at no time do two instances hold the directory: while one has the
\* lock or is open, every other open ends in LockDirectoryFailed.
SingleWriter ==
    Cardinality({h \in Handles : inst[h] \in {"locked", "open"}}) <= 1

\* C11: a second merge never runs beside the first: a merge() called while
\* another is inside the protocol returns MergeInProgress and changes
\* neither the keydir, the data files nor the scratch directory.
MergeExclusive ==
    /\ [](~(InMerge /\ m2pc = "running"))
    /\ [][(InMerge /\ calls' = calls + 1 /\ ret' = "MergeInProgress") =>
              UNCHANGED <<keydir, disk, mdisk, meta, writing, stable, mpc>>]_vars

\* C12: once the error flag is set it stays set while the instance lives,
\* and every later call (put, delete, drop, merge, get) returns
\* DatabaseBroken and leaves the files and the keydir as they were.
StickyError ==
    /\ [][(db_error /\ alive') => db_error']_vars
    /\ [][(db_error /\ alive' /\ calls' = calls + 1) =>
              /\ UNCHANGED <<disk, mdisk, meta, keydir, writing, stable>>
              /\ IF mpc' # mpc THEN mpc' = "failed" ELSE ret' = "DatabaseBroken"]_vars
    /\ [][(db_error /\ alive' /\ gpc # "read" /\ <<gpc, gkey, gres>>' # <<gpc, gkey, gres>>) =>
              gres' = Err("DatabaseBroken")]_vars

\* C13: a put whose append fails returns the error of the append, sets the
\* error flag and leaves the keydir entry of every key as it was.
FailedPut ==
    [][(~db_error /\ calls' = calls + 1 /\ ret' \notin {"Ok", "DatabaseBroken"}) =>
          (ret' = "IoError" /\ db_error' /\ UNCHANGED keydir)]_vars

\* C14: a put under a positive max_data_file_size never returns
\* StorageOverflow and never sets the error flag because of an overflow,
\* whatever the size of the active file and of the row.
NoOverflowEscapes ==
    (probe.op = "put" /\ probe.ret # "none") =>
        (probe.ret # "StorageOverflow" /\ ~probe.db_error)

\* C16: an open with 0 in max_data_file_size, init_data_file_capacity,
\* max_key_size or max_value_size returns InvalidParameter, and then the
\* directory lock is not held, no file exists and no instance is open.
OptionValidation ==
    (/\ probe.op = "open" /\ probe.ret # "none"
     /\ \/ probe.options.max_data_file_size = 0
        \/ probe.options.init_data_file_capacity = 0
        \/ probe.options.max_key_size = 0
        \/ probe.options.max_value_size = 0)
    => /\ probe.ret = "InvalidParameter"
       /\ ~dirLock
       /\ disk = NoFiles /\ mdisk = NoFiles /\ meta = <<>>
       /\ \A h \in Handles : inst[h] = "closed"

\* C17: a delete of a key that is not in the keydir returns Ok, appends no
\* row to any data file, rolls no file over and leaves the keydir as it
\* is; get of the key is None afterwards.
DeleteAbsent ==
    [][\A k \in Keys :
          (keydir[k] = NoEntry /\ Delete(k)) =>
              /\ ret' = "Ok"
              /\ UNCHANGED <<disk, mdisk, writing, stable, gen, keydir>>
              /\ GetAt(disk', writing', stable', keydir'[k]) = None]_vars

\* C18: on a healthy open store foreach and fold call back exactly once for
\* every key whose get is Some, with the value get returns, never with a
\* superseded version or a tombstone row, and a counting fold ends at the
\* number of live keys.
ForeachLive ==
    (alive /\ ~db_error /\ ~kdLock) =>
        /\ \A k \in Keys :
              Cardinality({i \in 1..Len(foreach) : foreach[i].key = k})
                  = IF GetNow(k).kind = "some" THEN 1 ELSE 0
        /\ \A i \in 1..Len(foreach) : GetNow(foreach[i].key) = Some(foreach[i].value)
        /\ Len(foreach) = Cardinality({k \in Keys : GetNow(k).kind = "some"})

\* No call is in flight on an open, healthy instance.
Quiescent == alive /\ ~db_error /\ ~kdLock /\ mpc = "idle" /\ gpc # "read"

\* C19: in every quiescent state has(k) is true exactly for the keys whose
\* get returns Some, foreach_key and fold_key visit exactly those keys, and
\* number_of_keys is their number.
KeydirLive ==
    Quiescent =>
        LET live == {k \in Keys : GetNow(k).kind = "some"}
        IN  /\ \A k \in Keys : has(k) <=> k \in live
            /\ foreach_key = live
            /\ number_of_keys = Cardinality(live)

\* The keydir Bitcask::open would build from the directory as it is now.
Reopened ==
    KeyDirNew(DatabaseOpen(recover_merge(disk, mdisk, meta).disk, 0))

\* drop() has returned Ok on the open instance and no put or delete has
\* completed since.
DropIsLast == alive /\ \A k \in Keys : last[k].op = "drop"

\* C20: after drop() has returned Ok, and until the next write, get is None
\* for every key, the keydir is empty, no data file of the directory holds
\* a row, and a reopen of the directory builds an empty store; a put that
\* follows the drop is read back.
DropRemovesAll ==
    /\ [](DropIsLast =>
            /\ keydir = EmptyKeyDir
            /\ \A k \in Keys : GetNow(k) = None
            /\ \A f \in DOMAIN disk : disk[f].rows = <<>>
            /\ Reopened = EmptyKeyDir)
    /\ [][\A k \in Keys, v \in Values :
            (DropIsLast /\ Put(k, v)) => GetNow(k)' = Some(v)]_vars

\* C21: whichever of the read-only data files of the directory have a hint
\* file, the keydir rebuilt at open is the keydir rebuilt from the data
\* files alone.
HintEquivalence ==
    LET r == recover_merge(disk, mdisk, meta).disk
        db == DatabaseOpen(r, 0)
    IN  \A hints \in SUBSET {f \in DOMAIN r : r[f].readonly} :
            KeyDirNewHinted(db, hints) = KeyDirNew(db)

\* C22: between public operations an open database has exactly one
\* writable data file, the active one; it is on disk, it is not a stable
\* file, and every other data file of the directory is read-only.
OneWritable ==
    (alive /\ mpc = "idle") =>
        /\ writing \in DOMAIN disk /\ ~disk[writing].readonly
        /\ writing \notin stable
        /\ \A f \in DOMAIN disk \ {writing} : disk[f].readonly

\* C23: a data file that has become read-only stays read-only and gets no
\* further row; the active file of an open database is never a read-only
\* file; and a data file leaves the directory only in a step of the merge
\* purge (in merge() or resumed at open) or of drop.
FileLifecycle ==
    /\ [][\A f \in DOMAIN disk \cap DOMAIN disk' :
              disk[f].readonly => disk'[f] = disk[f]]_vars
    /\ []((alive /\ writing \in DOMAIN disk) => ~disk[writing].readonly)
    /\ [][(DOMAIN disk \ DOMAIN disk' # {}) =>
              \/ Drop
              \/ MergePurgeFile
              \/ meta # <<>> /\ \E h \in Handles : OpenLoad(h)]_vars

\* C24: after a merge() that returned Ok with no put, delete or drop
\* completed since it was called, the data files of the directory hold
\* exactly one row for every live key, with its value, and no other row;
\* every file that holds rows is a file the merge produced; and the number
\* of rows has gone down if there were more rows than live keys.
MergeReclaims ==
    (mpc = "done" /\ mClean) =>
        LET live == {k \in Keys : mPre[k].kind = "some"}
        IN  /\ \A k \in Keys :
                  SumRows([f \in DOMAIN disk |->
                              [rows |-> SelectSeq(disk[f].rows, LAMBDA r : r.key = k)]],
                          DOMAIN disk)
                      = IF k \in live THEN 1 ELSE 0
            /\ \A f \in DOMAIN disk : \A i \in 1..Len(disk[f].rows) :
                  mPre[disk[f].rows[i].key] = Some(disk[f].rows[i].value)
            /\ \A f \in DOMAIN disk : disk[f].rows # <<>> => f \in file_ids
            /\ mRows > Cardinality(live) => TotalRows(disk) < mRows

\* C25: a get of a key whose row has an altered byte between the start of
\* its timestamp and the end of its value returns CrcCheckFailed, never a
\* value read from the altered row.
CrcCoverage ==
    (probe.op = "get" /\ probe.ret.kind # "pending") =>
        probe.ret = Err("CrcCheckFailed")

\* C26: the row of a put that returned Ok is never taken for a deletion of
\* its key: while the put is the last write on the key, get does not
\* return None, whatever value within max_value_size was put.
NoTombstoneCollision ==
    (alive /\ ~db_error /\ ~kdLock) =>
        \A k \in Keys : last[k].op = "put" => GetNow(k) # None

\* C27: a get, failing or not, leaves the keydir, the data files and the
\* error flag as they are, so the entry of a key whose get failed is still
\* there; and on a key whose get fails a put returns Ok and is read back,
\* and a delete returns Ok and leaves get at None.
GetNoSideEffect ==
    /\ [][((gpc = "read" /\ gpc' = "done") \/ \E k \in Keys : GetLookup(k)) =>
              UNCHANGED <<disk, mdisk, meta, keydir, writing, stable, gen, db_error>>]_vars
    /\ [][\A k \in Keys, v \in Values :
              (GetNow(k).kind \notin {"some", "none"} /\ ~db_error /\ Put(k, v)) =>
                  /\ ret' = "Ok"
                  /\ GetAt(disk', writing', stable', keydir'[k]) = Some(v)]_vars
    /\ [][\A k \in Keys :
              (GetNow(k).kind \notin {"some", "none"} /\ ~db_error /\ Delete(k)) =>
                  /\ ret' = "Ok"
                  /\ GetAt(disk', writing', stable', keydir'[k]) = None]_vars

FlushRolls ==
    /\ [][FlushWritingFile =>
              IF Len(disk[writing].rows) > 0
              THEN /\ gen' = gen + 1 /\ gen' \notin DOMAIN disk
                   /\ DOMAIN disk' = DOMAIN disk \cup {gen'}
                   /\ stable' = stable \cup {writing} /\ writing \notin stable
                   /\ disk'[writing] = [disk[writing] EXCEPT !.readonly = TRUE]
                   /\ \A f \in DOMAIN disk \ {writing} : disk'[f] = disk[f]
                   /\ writing' = gen' /\ disk'[writing'] = NewFile
              ELSE UNCHANGED <<disk, writing, stable, gen>>]_vars
    /\ []((probe.op = "flush" /\ probe.regular /\ ~probe.dirty) =>
              /\ gen = probe.flushes + probe.rolls + 1
              /\ Cardinality(stable) = probe.flushes + probe.rolls)

\* C29 as stated: after n flushes each preceded by a write the allocator
\* stands at n + 1 and there are n stable files.
FlushCount ==
    (probe.op = "flush" /\ probe.regular /\ ~probe.dirty) =>
        /\ gen = probe.flushes + 1
        /\ Cardinality(stable) = probe.flushes

\* C30: reopening a directory whose highest data file is writable reuses
\* that file as the active file, allocates no id and adds no stable file;
\* the first write after the reopen goes to the end of the last row of
\* the file; and every row written stays readable at the RowLocation its
\* write returned, whatever is written later.
ReopenContinues ==
    /\ [][(Reopen /\ ~disk[Max(DOMAIN disk)].readonly) =>
              /\ writing' = Max(DOMAIN disk) /\ gen' = gen
              /\ stable' = stable /\ disk' = disk]_vars
    /\ [][(probe.op = "reopen" /\ probe.first /\ \E k \in Keys, v \in Values : ReopenWrite(k, v)) =>
              /\ probe.write_offset = file_len(disk[writing].rows)
              /\ disk'[writing].rows = Append(disk[writing].rows,
                                              disk'[writing].rows[Len(disk'[writing].rows)])]_vars
    /\ [](probe.op = "reopen" =>
              \A w \in probe.written :
                  /\ w.file_id = writing \/ w.file_id \in stable
                  /\ w.row_offset < file_len(disk[w.file_id].rows)
                  /\ row_at(disk[w.file_id].rows, w.row_offset) = w.row)

\* C31: Database::iter yields every row of every data file exactly once,
\* with the key and value stored at its RowLocation, by ascending file id
\* and ascending offset within a file.
IterEveryRow ==
    (alive /\ mpc = "idle") =>
        LET it == iter(MainDb)
        IN  /\ \A f \in DOMAIN disk : \A i \in 1..Len(disk[f].rows) :
                   Cardinality({j \in DOMAIN it : it[j].file_id = f /\ it[j].row_offset = i}) = 1
            /\ \A j \in DOMAIN it :
                   /\ it[j].file_id \in DOMAIN disk
                   /\ it[j].row_offset \in 1..Len(disk[it[j].file_id].rows)
                   /\ Row(it[j].key, it[j].value) = disk[it[j].file_id].rows[it[j].row_offset]
            /\ \A j \in DOMAIN it : \A j2 \in DOMAIN it :
                   j < j2 => \/ it[j].file_id < it[j2].file_id
                             \/ /\ it[j].file_id = it[j2].file_id
                                /\ it[j].row_offset < it[j2].row_offset

\* C32: the recovery iterator yields the rows of the loaded files file by
\* file from the highest id down to the lowest, so the first row it
\* yields for a key lies in the newest file that holds the key.
RecoveryDescending ==
    alive =>
        LET it == recovery_iter(MainDb)
        IN  /\ \A j \in DOMAIN it : \A j2 \in DOMAIN it :
                   j < j2 => it[j].file_id >= it[j2].file_id
            /\ \A j \in DOMAIN it :
                   (\A j0 \in 1..(j - 1) : it[j0].key # it[j].key) =>
                       \A f \in stable \cup {writing} :
                           (\E i \in 1..Len(disk[f].rows) : disk[f].rows[i].key = it[j].key) =>
                               f <= it[j].file_id

\* C33: after open the keydir holds key k iff the record of k with the
\* greatest (file_id, offset) in the directory is not a tombstone, and the
\* entry is then the location of that record.
NewestRecordWins ==
    [][(\E h \in Handles : OpenLoad(h)) =>
          \A k \in Keys :
              LET recs == {loc \in (DOMAIN disk') \X (1..max_data_file_size) :
                              /\ loc[2] <= Len(disk'[loc[1]].rows)
                              /\ disk'[loc[1]].rows[loc[2]].key = k}
                  newest == CHOOSE loc \in recs : \A o \in recs :
                                \/ o[1] < loc[1]
                                \/ o[1] = loc[1] /\ o[2] <= loc[2]
              IN  IF recs = {} \/ is_tombstone(disk'[newest[1]].rows[newest[2]].value)
                  THEN keydir'[k] = NoEntry
                  ELSE keydir'[k] = RowLocation(newest[1], newest[2])]_vars

\* The offset of the first undecodable row of a file, or one past its end.
FirstBad(rows) ==
    IF \A i \in 1..Len(rows) : decodable(rows[i]) THEN Len(rows) + 1
    ELSE Min({i \in 1..Len(rows) : ~decodable(rows[i])})

\* C34: an open of a directory in which a data file holds an undecodable
\* row succeeds; the keydir it builds is the one it would build if that
\* file ended just before the bad row, all other files being as they are:
\* the rows before the bad position are recovered as usual, and no entry
\* refers to a row at or after it.
TornTail ==
    [][\A h \in Handles : OpenLoad(h) =>
          LET cut == [f \in DOMAIN disk' |->
                         [disk'[f] EXCEPT !.rows = SubSeq(@, 1, FirstBad(@) - 1)]]
          IN  /\ inst'[h] = "open"
              /\ keydir' = KeyDirNew(Db(cut, writing', stable', gen'))
              /\ \A k \in Keys : keydir'[k] # NoEntry =>
                     /\ keydir'[k].file_id \in DOMAIN disk'
                     /\ keydir'[k].row_offset < FirstBad(disk'[keydir'[k].file_id].rows)]_vars

\* C35: in a running merge, merge.meta is written only when every file of
\* the merge database that holds rows has been flushed to read-only;
\* a file is moved from merge/ into the directory only when merge.meta
\* exists; the keydir overlay happens only when no file is left in merge/
\* and every merged file is in the directory; the merge deletes a data
\* file only after the overlay and the load; and merge.meta is deleted
\* only when nothing is left to purge.
MergeOrder ==
    /\ [][(alive /\ alive' /\ meta = <<>> /\ meta' # <<>>) =>
              /\ \A f \in DOMAIN mdisk : mdisk[f].rows # <<>> => mdisk[f].readonly
              /\ file_ids = DOMAIN mdisk]_vars
    /\ [][(alive /\ alive' /\ DOMAIN mdisk' # DOMAIN mdisk /\ mpc \notin {"open_db", "write"}) =>
              /\ meta # <<>>
              /\ DOMAIN mdisk' \subseteq DOMAIN mdisk
              /\ \A f \in DOMAIN mdisk \ DOMAIN mdisk' :
                     f \in DOMAIN disk' /\ disk'[f] = mdisk[f]]_vars
    /\ [][(mpc = "commit" /\ mpc' = "load") =>
              /\ DOMAIN mdisk = {}
              /\ file_ids \subseteq DOMAIN disk
              /\ keydir' = Overlay(keydir, new_kd)]_vars
    /\ [][(alive /\ alive' /\ mpc # "idle" /\ ~Drop /\ DOMAIN disk \ DOMAIN disk' # {}) =>
              /\ mpc = "purge"
              /\ file_ids \subseteq stable \cup {writing}]_vars
    /\ [][(alive /\ alive' /\ meta # <<>> /\ meta' = <<>>) =>
              /\ mpc = "purge"
              /\ PurgeSet(disk, file_ids, known) = {}]_vars

\* C36: a row written by a put or delete after the merge took its snapshot
\* lies in a data file whose id is greater than the id of every file the
\* merge reads (the files its snapshot refers to) and of every file the
\* merge writes (the files of the merge database).
WritesAboveMerge ==
    [][\A k \in Keys :
          (InWindow /\ disk' # disk /\ ((\E v \in Values : Put(k, v)) \/ Delete(k))) =>
              /\ \A j \in Keys : snapshot[j] # NoEntry => snapshot[j].file_id < writing'
              /\ \A f \in DOMAIN mdisk \cup file_ids : f < writing']_vars

\* A step of a merge that has not yet moved a file into the directory.
BeforeCommit ==
    \/ MergeBegin
    \/ MergeSnapshot
    \/ MergeOpenDb
    \/ MergeWriteRow
    \/ MergeFlushDb
    \/ MergeWriteMeta

OfKey(rows, k) == SelectSeq(rows, LAMBDA r : r.key = k)

\* C38: for concurrent puts and deletes the keydir is updated for the rows
\* of a key in the order in which they were appended; when all calls have
\* returned the keydir entry of the key is the location of the last row
\* appended for it, or absent if that row is a tombstone; and a get that
\* ran meanwhile returned None or the value of one of the puts of its key.
PutDeleteLinearizable ==
    probe.op = "threads" =>
        /\ \A k \in Keys :
               LET a == OfKey(probe.appended, k)
                   x == OfKey(probe.indexed, k)
               IN  /\ Len(x) <= Len(a)
                   /\ \A i \in 1..Len(x) : x[i].loc = a[i].loc
                   /\ (a # <<>> /\ \A t \in Threads : probe.th[t].pc \in {"idle", "done"}) =>
                          IF is_tombstone(a[Len(a)].val)
                          THEN keydir[k] = NoEntry /\ GetNow(k) = None
                          ELSE keydir[k] = a[Len(a)].loc /\ GetNow(k) = Some(a[Len(a)].val)
        /\ gpc = "done" =>
               \/ gres = None
               \/ \E i \in 1..Len(probe.appended) :
                      /\ probe.appended[i].key = gkey
                      /\ probe.appended[i].kind = "put"
                      /\ gres = Some(probe.appended[i].val)

\* C39: concurrent put, get, has, delete, foreach, fold, stats, sync, drop
\* and merge calls never deadlock: while a call is running some thread can
\* take its next lock operation, and every call eventually returns (no
\* thread stays inside a call from some point on).
NoDeadlock ==
    /\ []((probe.op = "locks" /\ \E t \in Threads : Busy(t)) => \E t \in Threads : CanStep(t))
    /\ \A t \in Threads : []<>(probe.op = "locks" => ~Busy(t))

Created ==
    IF \E h \in Handles : inst[h] = "locked" /\ inst'[h] = "open"
    THEN DOMAIN disk' \ DOMAIN recover_merge(disk, mdisk, meta).disk
    ELSE IdsOnDisk(disk', mdisk') \ IdsOnDisk(disk, mdisk)

\* C15: a file id is never assigned to two data files over the lifetime of
\* the directory (every data file a step creates has an id above every id
\* handed out before, across close, reopen and merges), and the counter of
\* an open instance never decreases.
FileIdMonotonic ==
    /\ [][\A f \in Created : f > maxId]_vars
    /\ [][(alive /\ alive') => gen' >= gen]_vars

\* ---------------------------------------------------------------- witnesses
\* A merge returned Ok with nothing written meanwhile, over a live key and
\* a deleted key.
MergeKeepsGetWitness ==
    /\ mpc = "done" /\ mClean
    /\ \E k \in Keys : mPre[k].kind = "some" /\ keydir[k].file_id \in file_ids
    /\ \E k \in Keys : last[k].op = "delete" /\ mPre[k] = None

\* One handle is open and another open has failed on the lock.
SingleWriterWitness ==
    \E h, g \in Handles : inst[h] = "open" /\ inst[g] = "LockDirectoryFailed"

\* A second merge() was turned away while the first was moving files.
MergeExclusiveWitness ==
    mpc = "commit" /\ ret = "MergeInProgress" /\ mergeLock

\* A put has failed on a store that holds a key.
FailedPutWitness ==
    /\ ret = "IoError" /\ db_error
    /\ \E k \in Keys : has(k) /\ last[k].op = "put"


\* An open whose only invalid option is the last one checked was refused.
OptionValidationWitness ==
    /\ probe.op = "open" /\ probe.ret = "InvalidParameter"
    /\ probe.options.max_data_file_size > 0 /\ probe.options.init_data_file_capacity > 0
    /\ probe.options.max_key_size > 0 /\ probe.options.max_value_size = 0

\* After a put of one key, a key that was never written has been deleted.
DeleteAbsentWitness ==
    /\ calls = 2
    /\ \E k, j \in Keys :
          /\ last[k].op = "delete" /\ last[j].op = "put" /\ has(j)
          /\ \A f \in DOMAIN disk : \A i \in 1..Len(disk[f].rows) : disk[f].rows[i].key # k

\* A reopened store has a sealed file with rows and an active file with rows.
FileLifecycleWitness ==
    /\ alive /\ downKind = "close" /\ Len(disk[writing].rows) > 0
    /\ \E f \in DOMAIN disk : disk[f].readonly /\ Len(disk[f].rows) > 0

\* A get has failed on a read error and the entry of its key is in place.
GetNoSideEffectWitness ==
    /\ gpc = "done" /\ gres = Err("TargetFileIdNotFound")
    /\ has(gkey) /\ keydir[gkey] = gentry /\ ~db_error

FlushRollsWitness ==
    /\ probe.op = "flush" /\ probe.regular /\ ~probe.dirty
    /\ probe.flushes = 2 /\ probe.rolls = 0 /\ probe.writes >= 2
    /\ gen = 3 /\ Cardinality(stable) = 2 /\ disk[writing] = NewFile

\* The store was opened on a directory with a torn row: a file holds a
\* recovered row, a torn row and a row after it, and another file is recovered.
TornTailWitness ==
    /\ alive /\ fresh /\ downKind # "none"
    /\ \E f \in DOMAIN disk :
           /\ FirstBad(disk[f].rows) < Len(disk[f].rows)
           /\ \E g \in DOMAIN disk \ {f} : \E k \in Keys : keydir[k].file_id = g

\* A merge has run through all its steps: it has moved a file with rows into
\* the directory, purged rows and deleted merge.meta.
MergeOrderWitness ==
    /\ mpc = "done" /\ meta = <<>> /\ DOMAIN mdisk = {}
    /\ \E f \in file_ids : f \in DOMAIN disk /\ disk[f].rows # <<>>
    /\ TotalRows(disk) < mRows

PutDeleteLinearizableWitness ==
    /\ probe.op = "threads"
    /\ \A t \in Threads : probe.th[t].pc = "done"
    /\ \E k \in Keys :
           /\ \E i \in 1..Len(probe.appended) : \E j \in (i + 1)..Len(probe.appended) :
                  /\ probe.appended[i].key = k /\ probe.appended[j].key = k
                  /\ probe.appended[i].loc # probe.appended[j].loc
                  /\ probe.th[1].loc = probe.appended[i].loc
                  /\ probe.th[2].loc = probe.appended[j].loc
           /\ gpc = "done" /\ gkey = k /\ gres.kind = "some"

\* A put that holds the keydir write lock waits for the writable file, which
\* another thread holds.
NoDeadlockWitness ==
    /\ probe.op = "locks"
    /\ \E t \in Threads :
           /\ Busy(t) /\ ~CanStep(t) /\ probe.kdw = t
           /\ NextLockOp(t) = <<"acq", "wf">>
           /\ probe.held["wf"] \notin {0, t}

====
